---------------------------- MODULE Spec2Model ----------------------------
(***************************************************************************)
(* MoltBrain request-serving layer.                                        *)
(*                                                                         *)
(*   QueryCache  (src/src/cache/QueryCache.ts)  bounded key/value cache    *)
(*               with TTL expiry and least-hits/earliest-insertion         *)
(*               eviction.                                                 *)
(*   MCPServer   (src/unnamed/part_003)  line-delimited JSON-RPC server    *)
(*               over a socket transport and a stdio transport.            *)
(*                                                                         *)
(* SpecCache drives the cache, SpecServer the two transports, SpecFramer   *)
(* the transports fed with arbitrary text (whitespace, multi-byte chars).  *)
(***************************************************************************)
EXTENDS Integers, Sequences, FiniteSets, TLC

VARIABLES
    \* ---- QueryCache ----
    maxSize,    \* options.maxSize
    ttlMs,      \* options.ttlMs
    onEvict,    \* TRUE iff options.onEvict is configured
    cache,      \* the Map, as the sequence of its entries in iteration order
    now,        \* Date.now()
    calls,      \* getOrSet invocations: suspended at `await factory()` or idle
    evicted,    \* onEvict invocations made by the last cache operation
    lastOp,     \* the last cache operation: name, key, data, result, removed keys
    ops,        \* number of cache operations called so far
    \* ---- MCPServer ----
    transport,   \* "socket" (server.start) or "stdio" (startStdio): CLI entry
    alphabet,    \* the bytes a peer may send
    clients,     \* the sockets peers will open, named in order of acceptance
    server,      \* this.server: "null", "listening", "closing", "closed"
    stopState,   \* the promise of stop(): "none", "pending", "resolved"
    connections, \* this.connections, the registry
    sock,        \* each socket: "none", "open", "errored", "destroyed", "closed"
    buffer,      \* the framer remainder of each channel (closure `buffer`)
    carry,       \* stdin's StringDecoder: bytes of an incomplete character
    rx,          \* all bytes received on each channel so far
    framed,      \* the lines each channel's framer handed to the dispatch loop
    tasks,       \* data callbacks suspended at `await handleRequest(...)`
    invoked,     \* per channel, the lines handleRequest was invoked for
    out,         \* per channel, the calls of write(), in order
    escaped,     \* TRUE once a failure has left a data callback uncaught
    exited       \* TRUE once process.exit(0) has run

cacheVars == <<maxSize, ttlMs, onEvict, cache, now, calls, evicted, lastOp, ops>>

serverVars == <<transport, alphabet, clients, server, stopState, connections, sock,
                buffer, carry, rx, framed, tasks, invoked, out, escaped, exited>>

(***************************************************************************)
(* Bounds of the cache model: the clock stops at MaxTime, a run makes at   *)
(* most MaxOps cache calls.                                                *)
(***************************************************************************)
MaxTime == 1
MaxOps == 4

\* Configurations: options.maxSize and options.ttlMs (in clock ticks).
Capacities == {1, 2}
Ttls == {0, 1}

\* Keys are caller-defined strings; the empty string is one of them.
Keys == {"", "a", "b"}
Undefined == "undefined"
\* Cached data; `undefined` is a value a caller may store (T = any).
Values == {Undefined, "v1"}
Callers == {"p1", "p2"}
\* A RegExp: the keys its source matches (/a/, /[ab]/, /^$/) and its g flag.
Sources == {{"a"}, {"a", "b"}, {""}}
Patterns == [matches : Sources, global : BOOLEAN]

(***************************************************************************)
(* The Map<string, CacheEntry>: insertion-ordered, keys unique.            *)
(***************************************************************************)
KeyIndex(c, key) ==
    IF \E i \in DOMAIN c : c[i].key = key
    THEN CHOOSE i \in DOMAIN c : c[i].key = key
    ELSE 0

MapHas(c, key) == KeyIndex(c, key) # 0

MapKeys(c) == {c[i].key : i \in DOMAIN c}

MapDelete(c, key) == SelectSeq(c, LAMBDA e : e.key # key)

\* Map.set keeps the position of a key that is already present.
MapSet(c, key, entry) ==
    IF MapHas(c, key)
    THEN [c EXCEPT ![KeyIndex(c, key)] = entry]
    ELSE Append(c, entry)

\* The state an operation starts from: the map, no callback made yet.
Begin == [cache |-> cache, evicted |-> <<>>, ret |-> Undefined]

\* Faulty variant of isExpired: an entry expires when its age reaches the TTL.
isExpiredAtTtl(entry) == now - entry.timestamp >= ttlMs

isExpired(entry) == now - entry.timestamp > ttlMs

\* Faulty variant of delete: the entry is removed first, the callback runs after.
deleteThenNotify(st, key) ==
    LET i == KeyIndex(st.cache, key) IN
    [cache   |-> MapDelete(st.cache, key),
     evicted |-> IF i # 0 /\ onEvict
                 THEN Append(st.evicted,
                             [key |-> key, entry |-> st.cache[i],
                              stored |-> MapHas(MapDelete(st.cache, key), key)])
                 ELSE st.evicted,
     ret     |-> i # 0]

\* delete(key): the callback sees the entry while it is still in the map.
delete(st, key) ==
    LET i == KeyIndex(st.cache, key) IN
    [cache   |-> MapDelete(st.cache, key),
     evicted |-> IF i # 0 /\ onEvict
                 THEN Append(st.evicted,
                             [key |-> key, entry |-> st.cache[i],
                              stored |-> MapHas(st.cache, key)])
                 ELSE st.evicted,
     ret     |-> i # 0]

\* Faulty variant of get: the value is returned, the hit is not counted.
getNoHit(st, key) ==
    LET i == KeyIndex(st.cache, key) IN
    IF i = 0 THEN [st EXCEPT !.ret = Undefined]
    ELSE IF isExpired(st.cache[i])
         THEN [delete(st, key) EXCEPT !.ret = Undefined]
         ELSE [st EXCEPT !.ret = st.cache[i].data]

get(st, key) ==
    LET i == KeyIndex(st.cache, key) IN
    IF i = 0 THEN [st EXCEPT !.ret = Undefined]
    ELSE IF isExpired(st.cache[i])
         THEN [delete(st, key) EXCEPT !.ret = Undefined]
         ELSE [st EXCEPT !.cache[i].hits = @ + 1, !.ret = st.cache[i].data]

\* Faulty variant of has: implemented as get(key) !== undefined.
hasByGet(st, key) ==
    [get(st, key) EXCEPT !.ret = get(st, key).ret # Undefined]

has(st, key) ==
    LET i == KeyIndex(st.cache, key) IN
    IF i = 0 THEN [st EXCEPT !.ret = FALSE]
    ELSE IF isExpired(st.cache[i])
         THEN [delete(st, key) EXCEPT !.ret = FALSE]
         ELSE [st EXCEPT !.ret = TRUE]

\* Faulty variant of lruScan: fewest hits only, the insertion-time tie-break dropped.
RECURSIVE lruScanNoTieBreak(_, _, _)
lruScanNoTieBreak(c, i, lru) ==
    IF i > Len(c) THEN lru
    ELSE lruScanNoTieBreak(c, i + 1,
                           IF lru = 0 \/ c[i].hits < c[lru].hits
                           THEN i ELSE lru)

\* The scan of evictLRU: the index of lruEntry after entries i.. are visited.
RECURSIVE lruScan(_, _, _)
lruScan(c, i, lru) ==
    IF i > Len(c) THEN lru
    ELSE lruScan(c, i + 1,
                 IF lru = 0
                    \/ c[i].hits < c[lru].hits
                    \/ (c[i].hits = c[lru].hits
                        /\ c[i].timestamp < c[lru].timestamp)
                 THEN i ELSE lru)

\* Faulty variant of evictLRU: an expired entry, if there is one, is the victim.
evictExpiredFirst(st) ==
    LET expired == {i \in DOMAIN st.cache : isExpired(st.cache[i])}
        lru     == IF expired # {}
                   THEN CHOOSE i \in expired : \A j \in expired : i <= j
                   ELSE lruScan(st.cache, 1, 0)
    IN IF lru # 0 /\ st.cache[lru].key # ""
       THEN delete(st, st.cache[lru].key)
       ELSE st

\* `if (lruKey)`: the empty string is falsy, so a victim keyed "" is kept.
evictLRU(st) ==
    LET lru == lruScan(st.cache, 1, 0) IN
    IF lru # 0 /\ st.cache[lru].key # ""
    THEN delete(st, st.cache[lru].key)
    ELSE st

\* Faulty variant of set: an overwrite keeps the hit count of the entry.
setKeepsHits(st, key, data) ==
    LET i   == KeyIndex(st.cache, key)
        st1 == IF Len(st.cache) >= maxSize /\ i = 0
               THEN evictLRU(st) ELSE st
    IN [st1 EXCEPT !.cache = MapSet(st1.cache, key,
                                    [key |-> key, data |-> data,
                                     timestamp |-> now,
                                     hits |-> IF i = 0 THEN 0
                                              ELSE st.cache[i].hits]),
                   !.ret = Undefined]

set(st, key, data) ==
    LET st1 == IF Len(st.cache) >= maxSize /\ ~MapHas(st.cache, key)
               THEN evictLRU(st) ELSE st
    IN [st1 EXCEPT !.cache = MapSet(st1.cache, key,
                                    [key |-> key, data |-> data,
                                     timestamp |-> now, hits |-> 0]),
                   !.ret = Undefined]

\* Faulty variant of clear: the map is emptied, the callback is not invoked.
clearSilently(st) ==
    [cache |-> <<>>, evicted |-> st.evicted, ret |-> Undefined]

clear(st) ==
    [cache   |-> <<>>,
     evicted |-> IF onEvict
                 THEN st.evicted \o
                      [i \in DOMAIN st.cache |->
                          [key |-> st.cache[i].key, entry |-> st.cache[i],
                           stored |-> TRUE]]
                 ELSE st.evicted,
     ret     |-> Undefined]

\* String.length of a key.
length(key) == IF key = "" THEN 0 ELSE 1

\* RegExp.prototype.test(key): without the g flag a search from the start.
\* With it the search starts at pattern.lastIndex, and lastIndex is left at
\* the end of the match, or at 0 when there is none. A match of these sources
\* spans the whole key, so a search from an index past 0 finds none.
test(pattern, lastIndex, key) ==
    LET found == key \in pattern.matches /\ lastIndex = 0 IN
    [found     |-> found,
     lastIndex |-> IF pattern.global /\ found THEN length(key) ELSE 0]

\* for (const key of this.cache.keys()) over a live map: an entry deleted
\* during the walk is not visited, the walk goes on with the next one.
RECURSIVE invalidateLoop(_, _, _, _, _)
invalidateLoop(st, ks, pattern, lastIndex, count) ==
    IF ks = <<>> THEN [st EXCEPT !.ret = count]
    ELSE LET key == Head(ks)
             t   == test(pattern, lastIndex, key) IN
         IF MapHas(st.cache, key) /\ t.found
         THEN invalidateLoop(delete(st, key), Tail(ks), pattern, t.lastIndex,
                             count + 1)
         ELSE invalidateLoop(st, Tail(ks), pattern, t.lastIndex, count)

\* The caller passes a RegExp whose lastIndex is 0.
invalidatePattern(st, pattern) ==
    invalidateLoop(st, [i \in DOMAIN st.cache |-> st.cache[i].key], pattern, 0, 0)

\* Faulty variant of pruneLoop: a walk by index over the shrinking store, which
\* steps over the entry that follows a deleted one.
RECURSIVE pruneLoopByIndex(_, _, _)
pruneLoopByIndex(st, ks, count) ==
    IF ks = <<>> THEN [st EXCEPT !.ret = count]
    ELSE LET key == Head(ks)
             i   == KeyIndex(st.cache, key) IN
         IF i # 0 /\ isExpired(st.cache[i])
         THEN pruneLoopByIndex(delete(st, key),
                               IF Len(ks) >= 2 THEN Tail(Tail(ks)) ELSE <<>>,
                               count + 1)
         ELSE pruneLoopByIndex(st, Tail(ks), count)

RECURSIVE pruneLoop(_, _, _)
pruneLoop(st, ks, count) ==
    IF ks = <<>> THEN [st EXCEPT !.ret = count]
    ELSE LET key == Head(ks)
             i   == KeyIndex(st.cache, key) IN
         IF i # 0 /\ isExpired(st.cache[i])
         THEN pruneLoop(delete(st, key), Tail(ks), count + 1)
         ELSE pruneLoop(st, Tail(ks), count)

prune(st) ==
    pruneLoop(st, [i \in DOMAIN st.cache |-> st.cache[i].key], 0)

RECURSIVE SumHits(_)
SumHits(c) == IF c = <<>> THEN 0 ELSE Head(c).hits + SumHits(Tail(c))

size(st) == Len(st.cache)

\* Faulty variant of stats: the hit rate is taken over the capacity.
statsOverCapacity(st) ==
    [size |-> Len(st.cache), maxSize |-> maxSize,
     hitRate |-> IF Len(st.cache) > 0
                 THEN <<SumHits(st.cache), maxSize>> ELSE <<0, 1>>,
     totalHits |-> SumHits(st.cache)]

\* stats() reads the map and changes nothing; hitRate, a quotient of two
\* integers, is kept as the pair <<numerator, denominator>>.
stats(st) ==
    [size |-> Len(st.cache), maxSize |-> maxSize,
     hitRate |-> IF Len(st.cache) > 0
                 THEN <<SumHits(st.cache), Len(st.cache)>> ELSE <<0, 1>>,
     totalHits |-> SumHits(st.cache)]

(***************************************************************************)
(* Cache operations as steps.                                              *)
(***************************************************************************)
NoKey == "-"

NoData == "-"

Done(op, key, data, st) ==
    /\ ops < MaxOps
    /\ ops' = ops + 1
    /\ cache' = st.cache
    /\ evicted' = st.evicted
    /\ lastOp' = [op |-> op, key |-> key, data |-> data, ret |-> st.ret,
                  removed |-> MapKeys(cache) \ MapKeys(st.cache)]

CallGet(key) ==
    /\ Done("get", key, NoData, get(Begin, key))
    /\ UNCHANGED <<serverVars, maxSize, ttlMs, onEvict, now, calls>>

CallSet(key, data) ==
    /\ Done("set", key, data, set(Begin, key, data))
    /\ UNCHANGED <<serverVars, maxSize, ttlMs, onEvict, now, calls>>

CallHas(key) ==
    /\ Done("has", key, NoData, has(Begin, key))
    /\ UNCHANGED <<serverVars, maxSize, ttlMs, onEvict, now, calls>>

CallDelete(key) ==
    /\ Done("delete", key, NoData, delete(Begin, key))
    /\ UNCHANGED <<serverVars, maxSize, ttlMs, onEvict, now, calls>>

CallClear ==
    /\ Done("clear", NoKey, NoData, clear(Begin))
    /\ UNCHANGED <<serverVars, maxSize, ttlMs, onEvict, now, calls>>

CallPrune ==
    /\ Done("prune", NoKey, NoData, prune(Begin))
    /\ UNCHANGED <<serverVars, maxSize, ttlMs, onEvict, now, calls>>

CallInvalidatePattern(pattern) ==
    /\ Done("invalidatePattern", NoKey, pattern,
            invalidatePattern(Begin, pattern))
    /\ UNCHANGED <<serverVars, maxSize, ttlMs, onEvict, now, calls>>

CallStats ==
    /\ Done("stats", NoKey, NoData, [Begin EXCEPT !.ret = stats(Begin)])
    /\ UNCHANGED <<serverVars, maxSize, ttlMs, onEvict, now, calls>>

\* getOrSet up to `await factory()`: a hit returns, a miss suspends.
GetOrSetCall(p, key) ==
    /\ calls[p].pc = "idle"
    /\ LET st == get(Begin, key) IN
       /\ Done(IF st.ret # Undefined THEN "getOrSet" ELSE "getOrSet.await",
               key, NoData, st)
       /\ calls' = IF st.ret # Undefined THEN calls
                   ELSE [calls EXCEPT ![p] = [pc |-> "computing", key |-> key]]
    /\ UNCHANGED <<serverVars, maxSize, ttlMs, onEvict, now>>

\* Faulty variant of GetOrSetResume: a value stored meanwhile is kept and returned.
GetOrSetResumeFirstWins(p, data) ==
    /\ calls[p].pc = "computing"
    /\ LET i == KeyIndex(cache, calls[p].key) IN
       Done("getOrSet.set", calls[p].key, data,
            IF i # 0 THEN [Begin EXCEPT !.ret = cache[i].data]
            ELSE [set(Begin, calls[p].key, data) EXCEPT !.ret = data])
    /\ calls' = [calls EXCEPT ![p] = [pc |-> "idle", key |-> NoKey]]
    /\ UNCHANGED <<serverVars, maxSize, ttlMs, onEvict, now>>

\* factory() resolved with data: set(key, data), return data.
GetOrSetResume(p, data) ==
    /\ calls[p].pc = "computing"
    /\ Done("getOrSet.set", calls[p].key, data,
            [set(Begin, calls[p].key, data) EXCEPT !.ret = data])
    /\ calls' = [calls EXCEPT ![p] = [pc |-> "idle", key |-> NoKey]]
    /\ UNCHANGED <<serverVars, maxSize, ttlMs, onEvict, now>>

\* factory() rejected: the rejection leaves getOrSet, nothing is stored.
GetOrSetReject(p) ==
    /\ calls[p].pc = "computing"
    /\ Done("getOrSet.reject", calls[p].key, NoData,
            [Begin EXCEPT !.ret = "rejected"])
    /\ calls' = [calls EXCEPT ![p] = [pc |-> "idle", key |-> NoKey]]
    /\ UNCHANGED <<serverVars, maxSize, ttlMs, onEvict, now>>

Tick ==
    /\ now < MaxTime
    /\ now' = now + 1
    /\ evicted' = <<>>
    /\ lastOp' = [op |-> "tick", key |-> NoKey, data |-> NoData,
                  ret |-> Undefined, removed |-> {}]
    /\ UNCHANGED <<serverVars, maxSize, ttlMs, onEvict, cache, calls, ops>>

NewCache ==
    /\ maxSize \in Capacities
    /\ ttlMs \in Ttls
    /\ onEvict \in BOOLEAN
    /\ cache = <<>>
    /\ now = 0
    /\ ops = 0
    /\ calls = [p \in Callers |-> [pc |-> "idle", key |-> NoKey]]
    /\ evicted = <<>>
    /\ lastOp = [op |-> "new", key |-> NoKey, data |-> NoData,
                 ret |-> Undefined, removed |-> {}]

NextCache ==
    \/ \E key \in Keys : CallGet(key)
    \/ \E key \in Keys, data \in Values : CallSet(key, data)
    \/ \E key \in Keys : CallHas(key)
    \/ \E key \in Keys : CallDelete(key)
    \/ CallClear
    \/ CallPrune
    \/ \E pattern \in Patterns : CallInvalidatePattern(pattern)
    \/ CallStats
    \/ \E p \in Callers, key \in Keys : GetOrSetCall(p, key)
    \/ \E p \in Callers, data \in Values : GetOrSetResume(p, data)
    \/ \E p \in Callers : GetOrSetReject(p)
    \/ Tick


(***************************************************************************)
(* MCPServer: bytes, text and framing.                                     *)
(***************************************************************************)
MaxBytes == 4

Conns == {"c1", "c2"}
Stdio == "stdio"
Channels == Conns \cup {Stdio}

NL == "\n"
\* "1" stands for the JSON text of a request with id 1, "n" for that of a
\* notification (no id), "x" for text that is not JSON; "L" "C" are the two
\* bytes of one non-ASCII character "e'" and "?" is U+FFFD, what a decoder
\* puts for bytes that are no character.
ProtocolBytes == {"1", "n", "x", NL}
TextBytes == {"1", " ", NL, "L", "C"}
Accented == "e'"
Replacement == "?"

\* Buffer.toString(): the bytes of one chunk decoded on their own.
RECURSIVE toString(_)
toString(bytes) ==
    IF bytes = <<>> THEN <<>>
    ELSE IF Head(bytes) = "L" /\ Len(bytes) >= 2 /\ bytes[2] = "C"
         THEN <<Accented>> \o toString(Tail(Tail(bytes)))
         ELSE IF Head(bytes) \in {"L", "C"}
              THEN <<Replacement>> \o toString(Tail(bytes))
              ELSE <<Head(bytes)>> \o toString(Tail(bytes))

\* stdin.setEncoding('utf8'): a StringDecoder keeps the bytes of a character
\* cut by the chunk boundary and decodes them with the next chunk.
decoderWrite(held, bytes) ==
    LET all  == held \o bytes
        keep == IF all # <<>> /\ all[Len(all)] = "L" THEN 1 ELSE 0
    IN [text  |-> toString(SubSeq(all, 1, Len(all) - keep)),
        carry |-> SubSeq(all, Len(all) - keep + 1, Len(all))]

\* Faulty variant of split: the text is cut at its first newline only.
RECURSIVE splitOnce(_, _, _)
splitOnce(s, i, cur) ==
    IF i > Len(s) THEN <<cur>>
    ELSE IF s[i] = NL THEN <<cur, SubSeq(s, i + 1, Len(s))>>
         ELSE splitOnce(s, i + 1, Append(cur, s[i]))

\* String.split('\n'): the segments between newlines, at least one.
RECURSIVE split(_, _, _)
split(s, i, cur) ==
    IF i > Len(s) THEN <<cur>>
    ELSE IF s[i] = NL THEN <<cur>> \o split(s, i + 1, <<>>)
         ELSE split(s, i + 1, Append(cur, s[i]))

IsSpace(ch) == ch = " "

\* String.trim()
RECURSIVE trimStart(_)
trimStart(s) ==
    IF s # <<>> /\ IsSpace(Head(s)) THEN trimStart(Tail(s)) ELSE s

RECURSIVE trimEnd(_)
trimEnd(s) ==
    IF s # <<>> /\ IsSpace(s[Len(s)]) THEN trimEnd(SubSeq(s, 1, Len(s) - 1))
    ELSE s

trim(s) == trimEnd(trimStart(s))

parseMessages(buf) ==
    LET lines == split(buf, 1, <<>>)
        n     == Len(lines)
    IN [parsed    |-> SelectSeq([i \in 1..(n - 1) |-> trim(lines[i])],
                                LAMBDA m : m # <<>>),
        remaining |-> lines[n]]

(***************************************************************************)
(* MCPServer: dispatch.                                                    *)
(***************************************************************************)
Null == "null"
NoId == "absent"
PARSE_ERROR == "PARSE_ERROR"
HANDLER_ERROR == "HANDLER_ERROR"

\* JSON.parse(message) as MCPRequest: throws unless the text is one JSON value.
JSONparse(m) ==
    IF m = <<"1">> THEN [ok |-> TRUE, id |-> "1"]
    ELSE IF m = <<"n">> THEN [ok |-> TRUE, id |-> NoId]
    ELSE [ok |-> FALSE, id |-> Null]

\* handlers.handleRequest(request): resolves with a result or with an error it
\* reports, both under the request's id, or fails (throws or rejects).
HandlerOutcomes == {"result", "error", "throw"}

handleRequest(request, outcome) ==
    [id   |-> request.id,
     kind |-> IF outcome = "result" THEN "result" ELSE "error",
     code |-> IF outcome = "result" THEN "none" ELSE HANDLER_ERROR,
     by   |-> "handler"]

\* Faulty variant of errorResponse: the wrong error code.
errorResponseInternal ==
    [id |-> Null, kind |-> "error", code |-> "INTERNAL_ERROR", by |-> "dispatch"]

\* The errorResponse of the catch block.
errorResponse ==
    [id |-> Null, kind |-> "error", code |-> PARSE_ERROR, by |-> "dispatch"]

\* What the data callbacks of all channels share: the suspended callbacks,
\* the handler invocations, the writes, the uncaught failures.
Here == [tasks |-> tasks, invoked |-> invoked, out |-> out, escaped |-> escaped]

\* socket.write / process.stdout.write of one response line for line i: a
\* destroyed socket takes the call and delivers nothing.
write(S, ch, i, response) ==
    [S EXCEPT !.out[ch] =
        Append(@, [line |-> i, id |-> response.id, kind |-> response.kind,
                   code |-> response.code, by |-> response.by,
                   delivered |-> ch = Stdio \/ sock[ch] = "open"])]

\* Faulty variant of catch: the failure is thrown on instead of being answered.
catchRethrow(S, ch, i) == [S EXCEPT !.escaped = TRUE]

\* The catch block: any failure of the try block becomes the errorResponse.
catch(S, ch, i) == write(S, ch, i, errorResponse)

\* Faulty variant of loop: messages.parsed.forEach(async ...), every line of the
\* chunk is dispatched at once and awaits its handler on its own.
RECURSIVE loopForEach(_, _, _, _, _)
loopForEach(S, ch, lines, i, last) ==
    IF i > last THEN S
    ELSE IF ~JSONparse(lines[i].msg).ok
         THEN loopForEach(catch(S, ch, i), ch, lines, i + 1, last)
         ELSE loopForEach(
                 [S EXCEPT !.invoked[ch] = @ \cup {i},
                           !.tasks = @ \cup {[ch |-> ch, cur |-> i, last |-> i]}],
                 ch, lines, i + 1, last)

\* for (const message of messages.parsed) { try { ... await ... } catch ... }
\* from line i of the chunk on: runs until a handler is awaited or the
\* chunk's lines (up to last) are done.
RECURSIVE loop(_, _, _, _, _)
loop(S, ch, lines, i, last) ==
    IF i > last THEN S
    ELSE IF ~JSONparse(lines[i].msg).ok
         THEN loop(catch(S, ch, i), ch, lines, i + 1, last)
         ELSE [S EXCEPT !.invoked[ch] = @ \cup {i},
                        !.tasks = @ \cup {[ch |-> ch, cur |-> i, last |-> last]}]

\* The awaited handler of task t has settled: write its response, or the
\* errorResponse when it failed, and go on with the next line of the chunk.
resume(S, t, outcome) ==
    LET request == JSONparse(framed[t.ch][t.cur].msg)
        S1 == [S EXCEPT !.tasks = @ \ {t}]
        S2 == IF outcome = "throw" THEN catch(S1, t.ch, t.cur)
              ELSE write(S1, t.ch, t.cur, handleRequest(request, outcome))
    IN loop(S2, t.ch, framed[t.ch], t.cur + 1, t.last)

Becomes(S) ==
    /\ tasks' = S.tasks
    /\ invoked' = S.invoked
    /\ out' = S.out
    /\ escaped' = S.escaped

RECURSIVE SumLen(_, _)
SumLen(f, S) ==
    IF S = {} THEN 0
    ELSE LET x == CHOOSE x \in S : TRUE IN Len(f[x]) + SumLen(f, S \ {x})

Chunks == UNION {[1..k -> alphabet] : k \in 1..(MaxBytes - SumLen(rx, Channels))}

\* A peer that speaks the protocol sends one-token lines, cut into chunks at
\* any byte; a peer that sends text sends any bytes.
Sendable(ch, chunk) ==
    \/ alphabet = TextBytes
    \/ LET stream == rx[ch] \o chunk IN
       \A k \in DOMAIN stream : (stream[k] = NL) <=> (k % 2 = 0)

\* The lines a chunk adds to a channel, numbered on; chunk is its ordinal.
Framed(ch, parsed) ==
    framed[ch] \o [i \in 1..Len(parsed) |->
                      [msg |-> parsed[i], chunk |-> Len(rx[ch]) + 1]]

(***************************************************************************)
(* MCPServer: the socket transport.                                        *)
(***************************************************************************)
Start ==
    /\ transport = "socket"
    /\ server = "null"
    /\ server' = "listening"
    /\ UNCHANGED <<cacheVars, transport, alphabet, clients, stopState, connections, sock, buffer,
                   carry, rx, framed, tasks, invoked, out, escaped, exited>>

\* handleConnection(socket) up to the registration of the callbacks.
handleConnection(c) ==
    /\ server = "listening"
    /\ c \in clients
    /\ sock[c] = "none"
    /\ c = "c2" => sock["c1"] # "none"
    /\ connections' = connections \cup {c}
    /\ sock' = [sock EXCEPT ![c] = "open"]
    /\ buffer' = [buffer EXCEPT ![c] = <<>>]
    /\ UNCHANGED <<cacheVars, transport, alphabet, clients, server, stopState, carry, rx, framed,
                   tasks, invoked, out, escaped, exited>>

\* Faulty variant of OnData: one remainder, the first socket's, for every socket.
OnDataSharedBuffer(c, chunk) ==
    /\ sock[c] = "open"
    /\ Sendable(c, chunk)
    /\ LET messages == parseMessages(buffer["c1"] \o toString(chunk))
           lines    == Framed(c, messages.parsed)
       IN /\ buffer' = [buffer EXCEPT !["c1"] = messages.remaining]
          /\ framed' = [framed EXCEPT ![c] = lines]
          /\ Becomes(loop(Here, c, lines, Len(framed[c]) + 1, Len(lines)))
    /\ rx' = [rx EXCEPT ![c] = @ \o chunk]
    /\ UNCHANGED <<cacheVars, transport, alphabet, clients, server, stopState, connections, sock,
                   carry, exited>>

\* socket.on('data', async (data) => ...), up to its first await or its end.
OnData(c, chunk) ==
    /\ sock[c] = "open"
    /\ Sendable(c, chunk)
    /\ LET messages == parseMessages(buffer[c] \o toString(chunk))
           lines    == Framed(c, messages.parsed)
       IN /\ buffer' = [buffer EXCEPT ![c] = messages.remaining]
          /\ framed' = [framed EXCEPT ![c] = lines]
          /\ Becomes(loop(Here, c, lines, Len(framed[c]) + 1, Len(lines)))
    /\ rx' = [rx EXCEPT ![c] = @ \o chunk]
    /\ UNCHANGED <<cacheVars, transport, alphabet, clients, server, stopState, connections, sock,
                   carry, exited>>

\* Faulty variant of HandlerSettles: callbacks still run after process.exit(0).
HandlerSettlesAfterExit(t, outcome) ==
    /\ t \in tasks
    /\ Becomes(resume(Here, t, outcome))
    /\ UNCHANGED <<cacheVars, transport, alphabet, clients, server, stopState, connections, sock,
                   buffer, carry, rx, framed, exited>>

\* An awaited handleRequest settles and its data callback runs on.
HandlerSettles(t, outcome) ==
    /\ ~exited
    /\ t \in tasks
    /\ Becomes(resume(Here, t, outcome))
    /\ UNCHANGED <<cacheVars, transport, alphabet, clients, server, stopState, connections, sock,
                   buffer, carry, rx, framed, exited>>

\* A transport fault: the socket is destroyed, 'error' then 'close' follow.
SocketFault(c) ==
    /\ sock[c] = "open"
    /\ sock' = [sock EXCEPT ![c] = "errored"]
    /\ UNCHANGED <<cacheVars, transport, alphabet, clients, server, stopState, connections,
                   buffer, carry, rx, framed, tasks, invoked, out, escaped,
                   exited>>

\* Faulty variant of OnError: the error callback empties the registry.
OnErrorDropsAll(c) ==
    /\ sock[c] = "errored"
    /\ connections' = {}
    /\ sock' = [sock EXCEPT ![c] = "destroyed"]
    /\ UNCHANGED <<cacheVars, transport, alphabet, clients, server, stopState, buffer, carry, rx,
                   framed, tasks, invoked, out, escaped, exited>>

\* socket.on('error', ...)
OnError(c) ==
    /\ sock[c] = "errored"
    /\ connections' = connections \ {c}
    /\ sock' = [sock EXCEPT ![c] = "destroyed"]
    /\ UNCHANGED <<cacheVars, transport, alphabet, clients, server, stopState, buffer, carry, rx,
                   framed, tasks, invoked, out, escaped, exited>>

\* The peer ends the connection: the socket is closed, 'close' follows.
PeerCloses(c) ==
    /\ sock[c] = "open"
    /\ sock' = [sock EXCEPT ![c] = "destroyed"]
    /\ UNCHANGED <<cacheVars, transport, alphabet, clients, server, stopState, connections,
                   buffer, carry, rx, framed, tasks, invoked, out, escaped,
                   exited>>

\* Faulty variant of OnClose: the close callback leaves the registry alone.
OnCloseKeeps(c) ==
    /\ sock[c] = "destroyed"
    /\ sock' = [sock EXCEPT ![c] = "closed"]
    /\ UNCHANGED <<cacheVars, transport, alphabet, clients, server, stopState, connections,
                   buffer, carry, rx, framed, tasks, invoked, out, escaped,
                   exited>>

\* socket.on('close', ...)
OnClose(c) ==
    /\ sock[c] = "destroyed"
    /\ connections' = connections \ {c}
    /\ sock' = [sock EXCEPT ![c] = "closed"]
    /\ UNCHANGED <<cacheVars, transport, alphabet, clients, server, stopState, buffer, carry, rx,
                   framed, tasks, invoked, out, escaped, exited>>

\* Faulty variant of destroyAll: the registry is cleared, its sockets are left open.
destroyNone(tracked) == sock

\* conn.destroy() for every conn of a registry.
destroyAll(tracked) ==
    [c \in Conns |-> IF c \in tracked /\ sock[c] = "open"
                     THEN "destroyed" ELSE sock[c]]

\* Faulty variant of stop: the registry is cleared, no connection is destroyed.
stopWithoutDestroy ==
    /\ transport = "socket"
    /\ stopState # "pending"
    /\ connections' = {}
    /\ server' = IF server = "listening" THEN "closing" ELSE server
    /\ stopState' = IF server = "null" THEN "resolved" ELSE "pending"
    /\ UNCHANGED <<cacheVars, transport, alphabet, clients, sock, buffer, carry, rx, framed,
                   tasks, invoked, out, escaped, exited>>

\* stop(): destroy and forget every tracked connection, then server.close(cb),
\* or resolve at once when there is no server.
stop ==
    /\ transport = "socket"
    /\ stopState # "pending"
    /\ sock' = destroyAll(connections)
    /\ connections' = {}
    /\ server' = IF server = "listening" THEN "closing" ELSE server
    /\ stopState' = IF server = "null" THEN "resolved" ELSE "pending"
    /\ UNCHANGED <<cacheVars, transport, alphabet, clients, buffer, carry, rx, framed, tasks,
                   invoked, out, escaped, exited>>

\* The callback of server.close(): the listener is closed and every
\* connection has ended.
ServerClosed ==
    /\ stopState = "pending"
    /\ \A c \in Conns : sock[c] \in {"none", "closed"}
    /\ server' = "closed"
    /\ stopState' = "resolved"
    /\ UNCHANGED <<cacheVars, transport, alphabet, clients, connections, sock, buffer, carry, rx,
                   framed, tasks, invoked, out, escaped, exited>>

(***************************************************************************)
(* MCPServer: the stdio transport.                                         *)
(***************************************************************************)
\* Faulty variant of OnStdinData: a chunk that arrives while a request is pending
\* is framed but not dispatched.
OnStdinDataQueued(chunk) ==
    /\ transport = "stdio"
    /\ ~exited
    /\ Sendable(Stdio, chunk)
    /\ LET decoded == decoderWrite(carry, chunk)
           all     == split(buffer[Stdio] \o decoded.text, 1, <<>>)
           n       == Len(all)
           parsed  == SelectSeq([i \in 1..(n - 1) |-> trim(all[i])],
                                LAMBDA m : m # <<>>)
           lines   == Framed(Stdio, parsed)
       IN /\ carry' = decoded.carry
          /\ buffer' = [buffer EXCEPT ![Stdio] = all[n]]
          /\ framed' = [framed EXCEPT ![Stdio] = lines]
          /\ Becomes(IF \E t \in tasks : t.ch = Stdio THEN Here
                     ELSE loop(Here, Stdio, lines, Len(framed[Stdio]) + 1,
                               Len(lines)))
    /\ rx' = [rx EXCEPT ![Stdio] = @ \o chunk]
    /\ UNCHANGED <<cacheVars, transport, alphabet, clients, server, stopState, connections, sock,
                   exited>>

\* process.stdin.on('data', async (chunk) => ...), up to its first await.
OnStdinData(chunk) ==
    /\ transport = "stdio"
    /\ ~exited
    /\ Sendable(Stdio, chunk)
    /\ LET decoded == decoderWrite(carry, chunk)
           all     == split(buffer[Stdio] \o decoded.text, 1, <<>>)
           n       == Len(all)
           parsed  == SelectSeq([i \in 1..(n - 1) |-> trim(all[i])],
                                LAMBDA m : m # <<>>)
           lines   == Framed(Stdio, parsed)
       IN /\ carry' = decoded.carry
          /\ buffer' = [buffer EXCEPT ![Stdio] = all[n]]
          /\ framed' = [framed EXCEPT ![Stdio] = lines]
          /\ Becomes(loop(Here, Stdio, lines, Len(framed[Stdio]) + 1, Len(lines)))
    /\ rx' = [rx EXCEPT ![Stdio] = @ \o chunk]
    /\ UNCHANGED <<cacheVars, transport, alphabet, clients, server, stopState, connections, sock,
                   exited>>

\* Faulty variant of OnStdinEnd: the remainder is dispatched as a last line
\* before the process exits.
OnStdinEndDrains ==
    /\ transport = "stdio"
    /\ ~exited
    /\ exited' = TRUE
    /\ LET parsed == SelectSeq(<<trim(buffer[Stdio])>>, LAMBDA m : m # <<>>)
           lines  == Framed(Stdio, parsed)
       IN /\ buffer' = [buffer EXCEPT ![Stdio] = <<>>]
          /\ framed' = [framed EXCEPT ![Stdio] = lines]
          /\ Becomes(loop(Here, Stdio, lines, Len(framed[Stdio]) + 1, Len(lines)))
    /\ UNCHANGED <<cacheVars, transport, alphabet, clients, server, stopState, connections, sock,
                   carry, rx>>

\* process.stdin.on('end', () => process.exit(0))
OnStdinEnd ==
    /\ transport = "stdio"
    /\ ~exited
    /\ exited' = TRUE
    /\ UNCHANGED <<cacheVars, transport, alphabet, clients, server, stopState, connections, sock,
                   buffer, carry, rx, framed, tasks, invoked, out, escaped>>

IdleServer ==
    /\ server = "null"
    /\ stopState = "none"
    /\ connections = {}
    /\ sock = [c \in Conns |-> "none"]
    /\ buffer = [ch \in Channels |-> <<>>]
    /\ carry = <<>>
    /\ rx = [ch \in Channels |-> <<>>]
    /\ framed = [ch \in Channels |-> <<>>]
    /\ tasks = {}
    /\ invoked = [ch \in Channels |-> {}]
    /\ out = [ch \in Channels |-> <<>>]
    /\ escaped = FALSE
    /\ exited = FALSE
    /\ transport \in {"socket", "stdio"}
    /\ alphabet \in {ProtocolBytes, TextBytes}
    /\ clients \in {Conns, {"c1"}}

\* The cache is not part of the server: it stays as constructed.
IdleCache ==
    /\ maxSize = 1
    /\ ttlMs = 1
    /\ onEvict = FALSE
    /\ cache = <<>>
    /\ now = 0
    /\ ops = 0
    /\ calls = [p \in Callers |-> [pc |-> "idle", key |-> NoKey]]
    /\ evicted = <<>>
    /\ lastOp = [op |-> "new", key |-> NoKey, data |-> NoData,
                 ret |-> Undefined, removed |-> {}]

\* Two clients that speak the protocol.
InitServer ==
    IdleServer /\ IdleCache /\ alphabet = ProtocolBytes /\ clients = Conns

\* One client that sends arbitrary text.
InitFramer ==
    IdleServer /\ IdleCache /\ alphabet = TextBytes /\ clients = {"c1"}

NextServer ==
    \/ Start
    \/ \E c \in Conns : handleConnection(c)
    \/ \E c \in Conns : \E chunk \in Chunks : OnData(c, chunk)
    \/ \E t \in tasks, outcome \in HandlerOutcomes : HandlerSettles(t, outcome)
    \/ \E c \in Conns : SocketFault(c)
    \/ \E c \in Conns : OnError(c)
    \/ \E c \in Conns : PeerCloses(c)
    \/ \E c \in Conns : OnClose(c)
    \/ stop
    \/ ServerClosed
    \/ \E chunk \in Chunks : OnStdinData(chunk)
    \/ OnStdinEnd

vars == <<cacheVars, serverVars>>

\* The cache on its own: no server is started.
InitCache ==
    /\ NewCache /\ IdleServer
    /\ transport = "socket" /\ alphabet = ProtocolBytes /\ clients = Conns

SpecCache == InitCache /\ [][NextCache]_vars

SpecServer == InitServer /\ [][NextServer]_vars

SpecFramer == InitFramer /\ [][NextServer]_vars

\* What the runtime does on its own: it reports a fault, emits 'close' for a
\* destroyed socket and runs the callback of server.close(). Peers and
\* handlers are under no obligation.
Fairness ==
    /\ \A c \in Conns : WF_vars(OnError(c)) /\ WF_vars(OnClose(c))
    /\ WF_vars(ServerClosed)

SpecServerLive == InitServer /\ [][NextServer]_vars /\ Fairness


(***************************************************************************)
(* Claims about the server.                                                *)
(***************************************************************************)
Range(f) == {f[i] : i \in DOMAIN f}

\* The newline-terminated lines of a text, without their newline.
RECURSIVE LinesOf(_)
LinesOf(text) ==
    IF NL \notin Range(text) THEN <<>>
    ELSE LET k == CHOOSE k \in DOMAIN text :
                     text[k] = NL /\ \A j \in 1..(k - 1) : text[j] # NL
         IN <<SubSeq(text, 1, k - 1)>> \o LinesOf(SubSeq(text, k + 1, Len(text)))

\* A line without its leading and trailing whitespace.
Stripped(line) ==
    LET inked == {i \in DOMAIN line : ~IsSpace(line[i])} IN
    IF inked = {} THEN <<>>
    ELSE SubSeq(line, CHOOSE i \in inked : \A j \in inked : i <= j,
                      CHOOSE i \in inked : \A j \in inked : i >= j)

ExpectedMessages(text) ==
    SelectSeq([i \in DOMAIN LinesOf(text) |-> Stripped(LinesOf(text)[i])],
              LAMBDA m : m # <<>>)

Messages(ch) == [i \in DOMAIN framed[ch] |-> framed[ch][i].msg]

\* The bytes received are the encoding of a text, no character cut short.
IsText(bytes) == Replacement \notin Range(toString(bytes))

Request(ch, i) == JSONparse(framed[ch][i].msg)
Responses(ch, i) == {k \in DOMAIN out[ch] : out[ch][k].line = i}
Awaited(ch, i) == \E t \in tasks : t.ch = ch /\ t.cur = i
Queued(ch, i) == \E t \in tasks : t.ch = ch /\ t.cur < i /\ i <= t.last
SameChunk(ch, i, j) == framed[ch][i].chunk = framed[ch][j].chunk

\* C3 (as claimed): whenever the bytes a socket has received so far are a
\* text, the messages its framer handed to dispatch are the non-empty trimmed
\* newline-terminated lines of that text, however the text was cut in chunks.
C3_FramingIgnoresChunkBoundaries ==
    \A c \in Conns :
        IsText(rx[c]) => Messages(c) = ExpectedMessages(toString(rx[c]))

\* C4 (as claimed): every response written for a line that parses as a
\* request with an id carries that id, whether the handler returned or failed.
C4_ResponseEchoesRequestId ==
    \A ch \in Channels : \A k \in DOMAIN out[ch] :
        LET request == Request(ch, out[ch][k].line) IN
        request.ok /\ request.id # NoId => out[ch][k].id = request.id

\* C5: on either transport the handler is never invoked for a line that is
\* not JSON; while the line waits behind an awaited handler of its chunk
\* nothing is written for it, and once the loop has reached it exactly one
\* response has been written for it, an error with id null and PARSE_ERROR.
C5_MalformedLineGetsOneParseError ==
    \A ch \in Channels : \A i \in DOMAIN framed[ch] :
        ~Request(ch, i).ok =>
            /\ i \notin invoked[ch]
            /\ IF Queued(ch, i) THEN Responses(ch, i) = {}
               ELSE \E k \in DOMAIN out[ch] :
                       /\ Responses(ch, i) = {k}
                       /\ out[ch][k].kind = "error"
                       /\ out[ch][k].id = Null
                       /\ out[ch][k].code = PARSE_ERROR

\* C5 witness: a line that is not JSON came second in a chunk, behind a
\* request, and has been answered.
C5_Witness ==
    \E ch \in Channels : \E i \in DOMAIN framed[ch] :
        /\ i > 1
        /\ ~Request(ch, i).ok
        /\ Request(ch, i - 1).ok
        /\ SameChunk(ch, i - 1, i)
        /\ Responses(ch, i) # {}

\* C6 (as claimed): a response with code PARSE_ERROR is only ever written
\* for a line that is not JSON.
C6_ParseErrorOnlyForMalformedJson ==
    \A ch \in Channels : \A k \in DOMAIN out[ch] :
        out[ch][k].code = PARSE_ERROR => ~Request(ch, out[ch][k].line).ok

\* C7 (as claimed): dispatch within a chunk is not serialized, so while the
\* handler of a line of a socket's chunk is awaited every later line of that
\* chunk has been dispatched too and may be answered first.
C7_ChunkDispatchedWithoutWaiting ==
    \A t \in tasks :
        t.ch \in Conns =>
            \A i \in (t.cur + 1)..t.last :
                i \in invoked[t.ch] \/ Responses(t.ch, i) # {}

\* C7 (amended): on a socket the responses to the lines of one chunk are
\* written in the order of the lines, and a line is dispatched only after
\* every earlier line of its chunk has been answered.
C7_ChunkAnsweredInLineOrder ==
    \A c \in Conns :
        /\ \A j, k \in DOMAIN out[c] :
               /\ SameChunk(c, out[c][j].line, out[c][k].line)
               /\ out[c][j].line < out[c][k].line
               => j < k
        /\ \A i \in DOMAIN framed[c] :
               i \in invoked[c] \/ Responses(c, i) # {} =>
                   \A h \in 1..(i - 1) :
                       SameChunk(c, h, i) => Responses(c, h) # {}

\* C7 witness: two requests of one chunk of a socket, both answered by their
\* handlers.
C7_Witness ==
    \E c \in Conns : \E j, k \in DOMAIN out[c] :
        /\ out[c][j].line < out[c][k].line
        /\ SameChunk(c, out[c][j].line, out[c][k].line)
        /\ out[c][j].by = "handler"
        /\ out[c][k].by = "handler"

\* C8: no failure leaves a data callback, and for every line handed to the
\* dispatch loop exactly one response has been written once the loop is
\* through with it, none while it is awaited or waits behind an awaited line.
C8_OneResponsePerLine ==
    /\ ~escaped
    /\ \A ch \in Channels : \A i \in DOMAIN framed[ch] :
           Cardinality(Responses(ch, i)) =
               IF Awaited(ch, i) \/ Queued(ch, i) THEN 0 ELSE 1

\* C8 witness: a socket still open has been answered two lines, one whose
\* handler failed and one whose handler returned.
C8_Witness ==
    \E c \in Conns :
        /\ sock[c] = "open"
        /\ \E k \in DOMAIN out[c] :
               Request(c, out[c][k].line).ok /\ out[c][k].by = "dispatch"
        /\ \E k \in DOMAIN out[c] : out[c][k].by = "handler"

\* C9 (as claimed): nothing is written for a notification.
C9_NoResponseToNotification ==
    \A ch \in Channels : \A i \in DOMAIN framed[ch] :
        Request(ch, i).ok /\ Request(ch, i).id = NoId => Responses(ch, i) = {}

Delivered(c) == {k \in DOMAIN out[c] : out[c][k].delivered}

\* C10: stop() leaves the registry empty and every connection it tracked
\* destroyed; a destroyed socket is never open again and no response is
\* delivered on it any more, whatever handler was in flight.
C10_StopDestroysAndSilences ==
    [][/\ stop => /\ connections' = {}
                  /\ \A c \in connections : sock'[c] # "open"
       /\ \A c \in Conns :
              sock[c] \notin {"none", "open"} =>
                  /\ sock'[c] # "open"
                  /\ Delivered(c)' = Delivered(c)]_vars

\* C10 witness: stop() has run, and on a socket it destroyed a response of a
\* handler that was in flight has been written and not delivered.
C10_Witness ==
    /\ stopState = "pending"
    /\ connections = {}
    /\ \E c \in Conns :
           /\ sock[c] = "destroyed"
           /\ \E k \in DOMAIN out[c] :
                  out[c][k].by = "handler" /\ ~out[c][k].delivered

\* The events of a socket's life, read off a step.
Accepted(c) == sock[c] = "none" /\ sock'[c] = "open"
CloseEvent(c) == sock[c] = "destroyed" /\ sock'[c] = "closed"
ErrorEvent(c) == sock[c] = "errored" /\ sock'[c] = "destroyed"
Stopped == stopState # "pending" /\ stopState' # stopState

\* C11: the registry holds exactly the accepted connections whose close or
\* error event has not run and that stop() has not cleared: every open socket
\* is tracked, none that was never accepted or has closed is; a connection enters the registry in the step
\* that accepts it and in no other, and leaves it in the step of its close
\* event, of its error event or of stop(), each of which leaves it out.
C11_RegistryTracksLiveConnections ==
    /\ [](\A c \in Conns :
             /\ sock[c] = "open" => c \in connections
             /\ sock[c] \in {"none", "closed"} => c \notin connections)
    /\ [][\A c \in Conns :
             /\ c \in connections' \ connections <=> Accepted(c)
             /\ c \in connections \ connections' =>
                    CloseEvent(c) \/ ErrorEvent(c) \/ Stopped
             /\ CloseEvent(c) \/ ErrorEvent(c) \/ Stopped =>
                    c \notin connections']_vars

\* C11 witness: two connections were accepted; the first was ended by its
\* peer and its close event has removed it, the second is still tracked.
C11_Witness ==
    /\ sock["c1"] = "closed"
    /\ sock["c2"] = "open"
    /\ connections = {"c2"}
    /\ stopState = "none"

\* C24: in every state, that is after every chunk a data callback has
\* taken in, the remainder kept for a socket and the remainder kept for
\* stdin hold no newline.
C24_RemainderHasNoNewline ==
    \A ch \in Channels : NL \notin Range(buffer[ch])

\* C24 witness: a channel has received two newlines and then text, which is
\* its remainder now.
C24_Witness ==
    \E ch \in Channels :
        /\ buffer[ch] # <<>>
        /\ Cardinality({k \in DOMAIN rx[ch] : rx[ch][k] = NL}) >= 2

\* What the stdin data callback frames when the bytes come as one chunk.
StdioMessages(bytes) ==
    LET all == split(decoderWrite(<<>>, bytes).text, 1, <<>>) IN
    SelectSeq([i \in 1..(Len(all) - 1) |-> trim(all[i])], LAMBDA m : m # <<>>)

\* The stdio transport frames a byte stream the same however it is cut in
\* chunks, so StdioMessages(rx) is what it frames for any chunks that make rx.
StdioFramingIgnoresCuts == Messages(Stdio) = StdioMessages(rx[Stdio])

\* C25 (as claimed): the lines a socket's data callback has handed to
\* dispatch are those the stdio transport hands to dispatch for the same
\* bytes in the same chunks.
C25_TransportsDispatchSameLines ==
    \A c \in Conns : Messages(c) = StdioMessages(rx[c])

\* The text of a byte stream after its last newline.
Unterminated(text) ==
    LET nls == {k \in DOMAIN text : text[k] = NL} IN
    IF nls = {} THEN text
    ELSE SubSeq(text, (CHOOSE k \in nls : \A j \in nls : j <= k) + 1, Len(text))

\* C26: whatever the other connections received and in whatever order, the
\* lines dispatched for a socket are the lines of the bytes that socket
\* received and its remainder is the unterminated end of those bytes; every
\* response written to a socket answers a line of that socket which is not
\* pending, under that line's request id or null, and no line has two.
C26_ConnectionsAreIsolated ==
    \A c \in Conns :
        /\ Messages(c) = ExpectedMessages(toString(rx[c]))
        /\ buffer[c] = Unterminated(toString(rx[c]))
        /\ \A k \in DOMAIN out[c] :
               /\ out[c][k].line \in DOMAIN framed[c]
               /\ ~Awaited(c, out[c][k].line)
               /\ ~Queued(c, out[c][k].line)
               /\ out[c][k].id \in {Request(c, out[c][k].line).id, Null}
        /\ \A i \in DOMAIN framed[c] : Cardinality(Responses(c, i)) <= 1
        /\ \A t \in tasks : t.ch = c => t.cur \in DOMAIN framed[c]

\* C26 witness: both sockets hold half a line of their own while the first
\* has had an earlier line answered.
C26_Witness ==
    /\ buffer["c1"] = <<"n">>
    /\ buffer["c2"] = <<"1">>
    /\ out["c1"] # <<>>
    /\ out["c2"] = <<>>

\* A transport fault on socket c, and the error event that reports it.
Fault(c) == sock[c] = "open" /\ sock'[c] = "errored"

\* C27: the fault of a socket and its error event leave every other socket,
\* its registry membership, its remainder and its lines as they were, leave
\* all pending requests pending and the listener as it is; the error event
\* takes the faulty socket, and nothing else, out of the registry.
C27_ErrorEndsOneConnectionOnly ==
    [][\A c \in Conns :
          Fault(c) \/ ErrorEvent(c) =>
              /\ connections' = IF ErrorEvent(c) THEN connections \ {c}
                                ELSE connections
              /\ \A d \in Conns \ {c} :
                     /\ sock'[d] = sock[d]
                     /\ buffer'[d] = buffer[d]
                     /\ framed'[d] = framed[d]
              /\ tasks' = tasks
              /\ server' = server
              /\ stopState' = stopState]_vars

\* C27 witness: the first socket has failed and its error event has removed
\* it, while the second is tracked with half a line kept and a request
\* pending, and the server listens.
C27_Witness ==
    /\ sock["c1"] = "destroyed"
    /\ stopState = "none"
    /\ server = "listening"
    /\ connections = {"c2"}
    /\ buffer["c2"] # <<>>
    /\ \E t \in tasks : t.ch = "c2"

\* C28: a stop() that is pending is eventually resolved, with no step
\* required of any peer or handler; the listener no longer accepts while it
\* is pending; a stop() of a server that was never started is resolved in
\* the step of the call.
C28_StopCompletes ==
    /\ (stopState = "pending") ~> (stopState = "resolved")
    /\ [](stopState = "pending" => server # "listening")
    /\ [][stop /\ server = "null" => stopState' = "resolved"]_vars

\* C28 witness: stop() of a server with two connections has resolved, after
\* both sockets closed with a request still pending.
C28_Witness ==
    /\ stopState = "resolved"
    /\ server = "closed"
    /\ sock["c1"] = "closed"
    /\ sock["c2"] = "closed"
    /\ tasks # {}

\* C29: on the stdio transport the end of the input stream is the step that
\* terminates the process, and once the process has terminated it stays
\* terminated, no line is handed to dispatch, no handler is invoked and no
\* response is written, requests that were pending included.
C29_StdinEndTerminates ==
    [][/\ ~exited /\ exited' => transport = "stdio" /\ UNCHANGED <<framed, out>>
       /\ exited => /\ exited'
                    /\ framed' = framed
                    /\ invoked' = invoked
                    /\ out' = out]_vars

\* C29 witness: the process has terminated at the end of stdin after one
\* response was written and with another request still pending.
C29_Witness ==
    /\ exited
    /\ out[Stdio] # <<>>
    /\ \E t \in tasks : t.ch = Stdio

\* C30: when a chunk brings new lines to a channel, the first of them is
\* dispatched in the step that takes the chunk in, its handler invoked or its
\* error written, whether or not a request of an earlier chunk of the channel
\* is pending, and the pending requests stay pending.
C30_LaterChunkDispatchedAtOnce ==
    [][\A ch \in Channels :
          Len(framed'[ch]) > Len(framed[ch]) =>
              LET i == Len(framed[ch]) + 1 IN
              /\ \/ i \in invoked'[ch]
                 \/ \E k \in DOMAIN out'[ch] : out'[ch][k].line = i
              /\ tasks \subseteq tasks'
              /\ \A t \in tasks :
                     t.ch = ch =>
                         framed'[ch][i].chunk # framed'[ch][t.cur].chunk]_vars

\* C30 witness: a request of a later chunk has been answered by its handler
\* while a request of an earlier chunk of the same channel is still pending.
C30_Witness ==
    \E t \in tasks : \E k \in DOMAIN out[t.ch] :
        /\ out[t.ch][k].line > t.cur
        /\ ~SameChunk(t.ch, t.cur, out[t.ch][k].line)
        /\ out[t.ch][k].by = "handler"

\* C31: once stdin has ended, a request that was pending stays pending
\* and has no response, and the input after the last newline stays in the
\* remainder: it is no dispatched line, no handler is invoked for it and
\* nothing is written for it.
C31_StdinEndDrainsNothing ==
    /\ [](exited =>
             /\ buffer[Stdio] = Unterminated(toString(rx[Stdio]))
             /\ Messages(Stdio) = StdioMessages(rx[Stdio])
             /\ \A k \in DOMAIN out[Stdio] :
                    out[Stdio][k].line \in DOMAIN framed[Stdio]
             /\ \A t \in tasks :
                    \A i \in t.cur..t.last : Responses(t.ch, i) = {})
    /\ [][exited => UNCHANGED <<tasks, buffer, out>>]_vars

\* C31 witness: stdin has ended with a request pending and with input after
\* the last newline.
C31_Witness ==
    /\ exited
    /\ buffer[Stdio] # <<>>
    /\ \E t \in tasks : t.ch = Stdio /\ Responses(Stdio, t.cur) = {}

(***************************************************************************)
(* Claims about the cache.                                                 *)
(***************************************************************************)
SetOps == {"set", "getOrSet.set"}

\* C1 (as claimed): whenever a set has just completed, directly or as the
\* last step of getOrSet, the store holds at most maxSize entries.
C1_SizeAtMostMaxAfterSet ==
    lastOp.op \in SetOps => Len(cache) <= maxSize

\* C2: an entry removed by a set (capacity eviction) has the fewest hits of
\* all stored entries and, among those with that many hits, an earliest
\* insertion timestamp.
C2_EvictsFewestHitsEarliest ==
    [][lastOp'.op \in SetOps /\ ops' = ops + 1 =>
        \A i \in DOMAIN cache :
            cache[i].key \notin MapKeys(cache') =>
                \A j \in DOMAIN cache :
                    /\ cache[i].hits <= cache[j].hits
                    /\ cache[j].hits = cache[i].hits =>
                           cache[i].timestamp <= cache[j].timestamp]_vars

\* C2 witness: a set has just evicted an entry at capacity 2 while the entry
\* that stays has been hit.
C2_Witness ==
    /\ lastOp.op = "set"
    /\ lastOp.removed # {}
    /\ maxSize = 2
    /\ \E i \in DOMAIN cache : cache[i].hits > 0

\* A step that is a call of the named operations.
Called(names) == ops' = ops + 1 /\ lastOp'.op \in names

\* get, called directly or as the first statement of getOrSet.
GetOps == {"get", "getOrSet", "getOrSet.await"}

Age(entry) == now - entry.timestamp

\* C12: get(key) of a stored entry older than the TTL returns absent and
\* removes that entry and no other; of a stored entry of age at most the TTL it
\* returns the value and adds exactly one to its hit count, all else kept; of
\* a missing key it returns absent and changes nothing. A key that is not
\* stored becomes stored only by a set of that key, and has() of a key that
\* is not stored returns false.
C12_GetExpiresOrHits ==
    [][/\ Called(GetOps) =>
              LET key == lastOp'.key
                  i   == KeyIndex(cache, key) IN
              IF i = 0
              THEN lastOp'.ret = Undefined /\ cache' = cache
              ELSE IF Age(cache[i]) > ttlMs
                   THEN /\ lastOp'.ret = Undefined
                        /\ cache' = MapDelete(cache, key)
                        /\ ~MapHas(cache', key)
                   ELSE /\ lastOp'.ret = cache[i].data
                        /\ cache' = [cache EXCEPT ![i].hits = cache[i].hits + 1]
       /\ \A key \in Keys :
              ~MapHas(cache, key) /\ MapHas(cache', key) =>
                  Called(SetOps) /\ lastOp'.key = key
       /\ Called({"has"}) /\ ~MapHas(cache, lastOp'.key) =>
              lastOp'.ret = FALSE]_vars

\* C12 witness: a get has just removed an entry older than the TTL while
\* another entry stays stored.
C12_Witness ==
    /\ lastOp.op = "get"
    /\ lastOp.removed = {lastOp.key}
    /\ lastOp.ret = Undefined
    /\ cache # <<>>

\* C13 (as claimed): a set removes an entry other than its own key's exactly
\* when the key is not stored and the store holds maxSize entries or more, and
\* then it removes exactly one; a set of a stored key removes none.
C13_SetEvictsExactlyOneAtCapacity ==
    [][Called(SetOps) =>
          LET removed == MapKeys(cache) \ MapKeys(cache') IN
          IF ~MapHas(cache, lastOp'.key) /\ Len(cache) >= maxSize
          THEN Cardinality(removed) = 1
          ELSE removed = {}]_vars

\* C14: when a set of key with a value has completed, directly or as the last
\* step of getOrSet, key is stored once with that value, hit count zero and
\* the current time as insertion time, whether key was new or stored with
\* hits; every other entry that is still stored is as it was, and at most
\* one other entry is gone.
C14_SetStoresFreshEntry ==
    [][Called(SetOps) =>
          LET key == lastOp'.key
              i   == KeyIndex(cache', key) IN
          /\ i # 0
          /\ cache'[i] = [key |-> key, data |-> lastOp'.data,
                          timestamp |-> now, hits |-> 0]
          /\ Cardinality({j \in DOMAIN cache' : cache'[j].key = key}) = 1
          /\ \A j \in DOMAIN cache :
                 cache[j].key # key /\ MapHas(cache', cache[j].key) =>
                     cache'[KeyIndex(cache', cache[j].key)] = cache[j]
          /\ Cardinality(MapKeys(cache) \ MapKeys(cache')) <= 1
          /\ MapKeys(cache') \subseteq MapKeys(cache) \cup {key}]_vars

\* C14 witness: a set has just stored its key at time 1 beside an entry
\* that was inserted at time 0 and has a hit.
C14_Witness ==
    /\ lastOp.op = "set"
    /\ Len(cache) = 2
    /\ \E i, j \in DOMAIN cache :
           /\ cache[i].key = lastOp.key
           /\ cache[i].timestamp = 1
           /\ cache[j].key # lastOp.key
           /\ cache[j].timestamp = 0
           /\ cache[j].hits > 0

\* A store as a run of insertions of distinct new keys, with no get, leaves
\* it: no entry has a hit and the entries are in the order of their insertion
\* times. Every such store of at most maxSize entries is the result of
\* inserting its keys in that order.
OnlyInserted(c) ==
    /\ \A i \in DOMAIN c : c[i].hits = 0
    /\ \A i, j \in DOMAIN c : i < j => c[i].timestamp <= c[j].timestamp

KeysInOrder(c) == [i \in DOMAIN c |-> c[i].key]

LastN(q, n) == IF Len(q) <= n THEN q ELSE SubSeq(q, Len(q) - n + 1, Len(q))

\* C15 (as claimed): inserting a new key into a store that insertions alone
\* have filled leaves the last maxSize keys inserted, oldest first: beyond
\* capacity the oldest remaining key goes, equal timestamps or not.
C15_InsertionsKeepLastMaxSize ==
    [][/\ Called({"set"})
       /\ ~MapHas(cache, lastOp'.key)
       /\ OnlyInserted(cache)
       /\ Len(cache) <= maxSize
       => KeysInOrder(cache') =
              LastN(Append(KeysInOrder(cache), lastOp'.key), maxSize)]_vars

Hits(c, key) == c[KeyIndex(c, key)].hits

\* A get of key that finds its entry stored and no older than the TTL.
SuccessfulGet(key) ==
    /\ Called(GetOps)
    /\ lastOp'.key = key
    /\ MapHas(cache, key)
    /\ Age(cache[KeyIndex(cache, key)]) <= ttlMs

\* C16: the hit count of a stored entry is the number of successful gets of
\* its key, direct or through getOrSet, since the last set of the key: a set
\* of the key leaves it at zero, a key becomes stored by a set only, and any
\* other step that keeps the entry adds one if it is a successful get of the
\* key and leaves the count as it was if not, so it never decreases.
C16_HitsCountSuccessfulGets ==
    [][\A key \in Keys :
          MapHas(cache', key) =>
              IF Called(SetOps) /\ lastOp'.key = key
              THEN Hits(cache', key) = 0
              ELSE /\ MapHas(cache, key)
                   /\ Hits(cache', key) =
                          Hits(cache, key) + IF SuccessfulGet(key) THEN 1 ELSE 0]_vars

\* C16 witness: an entry has been hit twice since it was set, the second
\* time through getOrSet.
C16_Witness ==
    /\ lastOp.op = "getOrSet"
    /\ MapHas(cache, lastOp.key)
    /\ Hits(cache, lastOp.key) = 2

\* C17: has(key) returns true exactly when key is stored with age at most
\* the TTL; when key is stored with a greater age it leaves the store and the
\* eviction callbacks as get(key) would, the entry removed; in every other
\* case it leaves the store, hit counts included, as it was.
C17_HasChecksExpiryWithoutHit ==
    [][Called({"has"}) =>
          LET key == lastOp'.key
              i   == KeyIndex(cache, key) IN
          /\ lastOp'.ret = (i # 0 /\ Age(cache[i]) <= ttlMs)
          /\ IF i # 0 /\ Age(cache[i]) > ttlMs
             THEN /\ cache' = get(Begin, key).cache
                  /\ evicted' = get(Begin, key).evicted
                  /\ cache' = MapDelete(cache, key)
             ELSE cache' = cache]_vars

\* C17 witness: has() has just answered true for an entry that holds
\* `undefined` and has a hit already.
C17_Witness ==
    /\ lastOp.op = "has"
    /\ lastOp.ret = TRUE
    /\ \E i \in DOMAIN cache :
           /\ cache[i].key = lastOp.key
           /\ cache[i].data = Undefined
           /\ cache[i].hits = 1

Computing == {p \in Callers : calls[p].pc = "computing"}

\* C18 (as claimed): a getOrSet(key, compute) that starts while no other
\* call is suspended returns the stored value without invoking compute when
\* key is stored with age at most the TTL, and invokes compute otherwise;
\* when the compute of the only suspended call has resolved, its result is
\* stored under key and returned.
C18_GetOrSetComputesOnlyOnMiss ==
    [][/\ Called({"getOrSet", "getOrSet.await"}) /\ Computing = {} =>
              LET i == KeyIndex(cache, lastOp'.key) IN
              IF i # 0 /\ Age(cache[i]) <= ttlMs
              THEN /\ lastOp'.op = "getOrSet"
                   /\ lastOp'.ret = cache[i].data
                   /\ Computing' = {}
              ELSE /\ lastOp'.op = "getOrSet.await"
                   /\ Cardinality(Computing') = 1
       /\ Called({"getOrSet.set"}) /\ Cardinality(Computing) = 1 =>
              /\ MapHas(cache', lastOp'.key)
              /\ cache'[KeyIndex(cache', lastOp'.key)].data = lastOp'.data
              /\ lastOp'.ret = lastOp'.data
              /\ Computing' = {}]_vars

\* C19: a getOrSet of a key that is missing (not stored, or older than the
\* TTL) which starts while another call is suspended in compute for the same
\* key invokes its own compute and suspends too, the other call left as it
\* is; a call whose compute has resolved stores its own result under its key
\* and returns that result, whatever a call that finished earlier had
\* stored, and leaves the other call suspended.
C19_OverlappingGetOrSetLastSetWins ==
    [][/\ /\ Called({"getOrSet", "getOrSet.await"})
          /\ \E q \in Computing : calls[q].key = lastOp'.key
          /\ LET i == KeyIndex(cache, lastOp'.key) IN
                 i = 0 \/ Age(cache[i]) > ttlMs
          => /\ lastOp'.op = "getOrSet.await"
             /\ \E p \in Callers \ Computing :
                    /\ Computing' = Computing \cup {p}
                    /\ calls'[p].key = lastOp'.key
                    /\ \A q \in Callers \ {p} : calls'[q] = calls[q]
       /\ Called({"getOrSet.set"}) =>
              \E p \in Computing :
                  /\ Computing' = Computing \ {p}
                  /\ \A q \in Callers \ {p} : calls'[q] = calls[q]
                  /\ lastOp'.key = calls[p].key
                  /\ lastOp'.ret = lastOp'.data
                  /\ MapHas(cache', lastOp'.key)
                  /\ cache'[KeyIndex(cache', lastOp'.key)].data = lastOp'.data]_vars

\* C19 witness: of two calls suspended in compute for one key, one has just
\* stored and returned its result while the other is still suspended.
C19_Witness ==
    /\ lastOp.op = "getOrSet.set"
    /\ \E q \in Computing : calls[q].key = lastOp.key
    /\ MapHas(cache, lastOp.key)
    /\ cache[KeyIndex(cache, lastOp.key)].data = lastOp.data

\* The callback invocation for entry e, made while e is stored.
Notified(e) == [key |-> e.key, entry |-> e, stored |-> TRUE]

\* C20: delete(key) of a stored key removes that entry and no other and,
\* when a callback is configured, invokes it once, with the key and the
\* entry, while the entry is still stored; delete of a key that is not stored
\* invokes nothing and changes nothing. clear() empties the store and, when a
\* callback is configured, invokes it once for each entry, in the order of the
\* store, each while still stored. With no callback configured none is made.
C20_DeleteAndClearNotifyBeforeRemoval ==
    [][/\ Called({"delete"}) =>
              LET i == KeyIndex(cache, lastOp'.key) IN
              IF i = 0
              THEN cache' = cache /\ evicted' = <<>> /\ lastOp'.ret = FALSE
              ELSE /\ cache' = MapDelete(cache, lastOp'.key)
                   /\ Len(cache') = Len(cache) - 1
                   /\ lastOp'.ret = TRUE
                   /\ evicted' = IF onEvict THEN <<Notified(cache[i])>> ELSE <<>>
       /\ Called({"clear"}) =>
              /\ cache' = <<>>
              /\ evicted' = IF onEvict
                            THEN [i \in DOMAIN cache |-> Notified(cache[i])]
                            ELSE <<>>]_vars

\* C20 witness: clear() has just emptied a store of two entries and the
\* callback was invoked for both.
C20_Witness ==
    /\ lastOp.op = "clear"
    /\ lastOp.removed = {"a", "b"}
    /\ Len(evicted) = 2
    /\ cache = <<>>

\* C21: prune() leaves exactly the entries whose age is at most the TTL,
\* unchanged and in their order, and returns the number of entries it
\* removed, also when entries that follow one another are removed.
C21_PruneRemovesExactlyExpired ==
    [][Called({"prune"}) =>
          /\ cache' = SelectSeq(cache, LAMBDA e : Age(e) <= ttlMs)
          /\ lastOp'.ret = Len(cache) - Len(cache')
          /\ lastOp'.ret =
                 Cardinality({i \in DOMAIN cache : Age(cache[i]) > ttlMs})]_vars

\* C21 witness: prune() has just removed two entries that followed one
\* another in the store.
C21_Witness ==
    /\ lastOp.op = "prune"
    /\ lastOp.ret = 2
    /\ Cardinality(lastOp.removed) = 2

\* C22 (as claimed): invalidatePattern(pattern) leaves exactly the entries
\* whose key the pattern does not match, unchanged and in their order, and
\* returns the number of entries it removed.
C22_InvalidateRemovesExactlyMatching ==
    [][Called({"invalidatePattern"}) =>
          /\ cache' = SelectSeq(cache,
                                LAMBDA e : e.key \notin lastOp'.data.matches)
          /\ lastOp'.ret = Len(cache) - Len(cache')]_vars

\* Two quotients <<numerator, denominator>> of the same value.
SameQuotient(q, r) == q[1] * r[2] = r[1] * q[2]

\* C23: stats() reports the number of stored entries as size, options.maxSize
\* as maxSize, the sum of the stored entries' hit counts as totalHits and, as
\* hitRate, totalHits divided by size, or zero when nothing is stored; it
\* leaves the store as it was and invokes no callback.
C23_StatsReportsStore ==
    [][Called({"stats"}) =>
          LET r == lastOp'.ret IN
          /\ r.size = Len(cache)
          /\ r.maxSize = maxSize
          /\ r.totalHits = SumHits(cache)
          /\ r.hitRate[2] # 0
          /\ SameQuotient(r.hitRate, IF Len(cache) = 0 THEN <<0, 1>>
                                     ELSE <<SumHits(cache), Len(cache)>>)
          /\ cache' = cache
          /\ evicted' = <<>>]_vars

\* C23 witness: stats() has just reported one entry with two hits in a
\* store of capacity 2.
C23_Witness ==
    /\ lastOp.op = "stats"
    /\ lastOp.ret.size = 1
    /\ lastOp.ret.totalHits = 2
    /\ lastOp.ret.maxSize = 2

Expired(e) == Age(e) > ttlMs

\* The operations that look at the age of an entry, and those that remove
\* entries whatever their age.
ExpiryOps == GetOps \cup {"has", "prune"}
RemovalOps == SetOps \cup {"delete", "clear", "invalidatePattern"}

\* C32: a set never removes an expired entry that has more hits than another
\* stored entry, whether that other entry is expired or not; an expired entry
\* stays stored, counted in the size, through every step other than an
\* access to its key, a prune, a capacity eviction or an explicit removal,
\* and a set of a new key into a store whose maxSize entries include expired
\* ones still finds the store at capacity.
C32_EvictionIgnoresExpiry ==
    [][/\ Called(SetOps) =>
              \A i, j \in DOMAIN cache :
                  Expired(cache[i]) /\ cache[j].hits < cache[i].hits =>
                      MapHas(cache', cache[i].key)
       /\ \A i \in DOMAIN cache :
              Expired(cache[i]) /\ ~MapHas(cache', cache[i].key) =>
                  \/ Called(ExpiryOps \ {"prune"}) /\ lastOp'.key = cache[i].key
                  \/ Called(RemovalOps \cup {"prune"})
       /\ /\ Called(SetOps)
          /\ ~MapHas(cache, lastOp'.key)
          /\ Len(cache) = maxSize
          /\ \E i \in DOMAIN cache : Expired(cache[i])
          => Len(cache') >= maxSize /\ Cardinality(lastOp'.removed) <= 1]_vars

\* C32 witness: at time 1 with TTL 0 a set has just evicted an entry from a
\* full store of capacity 2, and an entry inserted at time 0, expired, with
\* a hit, is still stored beside the new one.
C32_Witness ==
    /\ lastOp.op = "set"
    /\ lastOp.removed # {}
    /\ maxSize = 2
    /\ Len(cache) = 2
    /\ \E i \in DOMAIN cache :
           /\ Expired(cache[i])
           /\ cache[i].hits > 0
           /\ cache[i].key # lastOp.key

\* C33: with a callback configured, every cache operation invokes it once
\* for each entry it removes, with the key and the entry as stored, and for
\* nothing else: the keys notified are, one each, the keys that left the
\* store, whichever operation removed them. A set of a stored key notifies
\* nothing. With no callback configured nothing is notified.
C33_EveryRemovalNotifiesOnce ==
    [][ops' = ops + 1 =>
          LET gone == {i \in DOMAIN cache : ~MapHas(cache', cache[i].key)} IN
          IF onEvict
          THEN /\ Len(evicted') = Cardinality(gone)
               /\ \A i \in gone :
                      \E k \in DOMAIN evicted' : evicted'[k] = Notified(cache[i])
               /\ Called(SetOps) /\ MapHas(cache, lastOp'.key) =>
                      /\ evicted' = <<>>
                      /\ MapKeys(cache') = MapKeys(cache)
          ELSE evicted' = <<>>]_vars

\* C33 witness: with a callback configured, a set at capacity has just
\* evicted an entry and the callback was invoked for it.
C33_Witness ==
    /\ onEvict
    /\ lastOp.op = "set"
    /\ Len(evicted) = 1
    /\ lastOp.removed = {evicted[1].key}

\* C34 (as claimed): a getOrSet whose compute is invoked has, by its lookup,
\* changed the store at most by removing the expired entry of its key; when
\* the compute fails the failure is what the call returns, and the store and
\* every entry in it are as they were before the failure, nothing stored.
C34_FailedComputeStoresNothing ==
    [][/\ Called({"getOrSet.await"}) =>
              LET i == KeyIndex(cache, lastOp'.key) IN
              cache' = IF i # 0 /\ Expired(cache[i])
                       THEN MapDelete(cache, lastOp'.key) ELSE cache
       /\ Called({"getOrSet.reject"}) =>
              /\ lastOp'.ret = "rejected"
              /\ cache' = cache
              /\ evicted' = <<>>]_vars

=============================================================================
